---------------------------- MODULE Spec2Model ----------------------------
(***************************************************************************)
(* A model of scetch.js: the ant-colony foraging simulation.               *)
(*                                                                         *)
(*   - generateMaze (randomised depth-first carving), one step per loop    *)
(*     iteration, and as a set-valued function for setup();                *)
(*   - findValidPosition (ring search) on arbitrary grids;                 *)
(*   - the draw() loop: updatePheromones, Ant.update for every ant,        *)
(*     spawnNewAnts.                                                       *)
(*                                                                         *)
(* Numbers.  Angles are integers in units of 3 degrees (TWO_PI = 120), the *)
(* coarsest unit that holds TURN_ANGLE, TURN_ANGLE / 2 and SENSE_ANGLE / 4 *)
(* exactly.  Pixel coordinates are fixed-point integers, PosScale to the   *)
(* pixel.  Pheromone values are fixed-point integers, PherScale to the     *)
(* unit.  Random draws are taken from small sets.                          *)
(***************************************************************************)
EXTENDS Integers, Sequences, FiniteSets, TLC

VARIABLES
  GRID_COLS,          \* simulationConfig.GRID_COLS
  GRID_ROWS,          \* simulationConfig.GRID_ROWS
  EVAPORATION_RATE,   \* simulationConfig.EVAPORATION_RATE, in 1 / RateScale
  maze,               \* simulationConfig.maze: [<<x, y>> -> 0 (path) | 1 (wall)]
  explorePheromones,  \* simulationConfig.explorePheromones: [<<x, y>> -> value * PherScale]
  returnPheromones,   \* simulationConfig.returnPheromones
  ants,               \* simulationConfig.ants: the sequence of Ant objects, in spawn order
  colonyPos,          \* simulationConfig.colonyPos
  foodPos,            \* simulationConfig.foodPos
  foodFoundCount,     \* simulationConfig.foodFoundCount
  lastAntSpawnTime,   \* simulationConfig.lastAntSpawnTime
  millis,             \* the clock that millis() reads
  pc,                 \* where the sketch is: "setup", "draw" (between two statements of
                      \* no interest), a statement of draw(), or "stopped" (noLoop)
  i,                  \* the loop index of updateAndDrawAnts (1-based)
  frame,              \* what the current call of draw() has done so far (history variable)
  gen,                \* the frame of a running generateMaze call
  fvp                 \* the frame of a findValidPosition call

simVars == <<EVAPORATION_RATE, explorePheromones, returnPheromones, ants, colonyPos, foodPos,
             foodFoundCount, lastAntSpawnTime, millis, pc, i, frame>>

vars == <<GRID_COLS, GRID_ROWS, maze, simVars, gen, fvp>>

(***************************************************************************)
(* Bounds of the model.                                                    *)
(***************************************************************************)
\* generateMaze is called with every column/row request in -MaxReq .. MaxReq
MaxReq == 7
\* findValidPosition is called on every grid of at most FvpMaxCells cells
FvpMaxCells == 9
\* the simulation is run for MaxFrames calls of draw()
MaxFrames == 3
\* spawnNewAnts is called MaxSpawnCalls times
MaxSpawnCalls == 5

(***************************************************************************)
(* simulationConfig.  The entries marked "scaled" are configuration values *)
(* the model takes smaller than the defaults of lines 2-42, so that the    *)
(* cap, the charge, the history and the clamp are reached within MaxFrames *)
(* frames.                                                                 *)
(***************************************************************************)
NUM_ANTS == 2                  \* scaled (600)
ANT_SPEED == 1
EVAPORATION_PERMILLE == 5      \* EVAPORATION_RATE = 0.005, in thousandths
DEPOSITION_RATE_EXPLORE == 15
DEPOSITION_RATE_RETURN == 15
PHEROMONE_MAX == 12            \* scaled (255)
PHEROMONE_DURATION == 2        \* scaled (5000)
GOAL_SENSE_RADIUS == 2
FOLLOW_STRENGTH_WEIGHT == 5
FOOD_DETECTION_RADIUS == 1
COLONY_DETECTION_RADIUS == 1
ANT_HISTORY_LENGTH == 2        \* scaled (20)
SPAWN_INTERVAL == 100
\* the requested grid (GRID_COLS, GRID_ROWS of lines 22-23), scaled (20, 16)
SimCols == 5
SimRows == 3
\* CELL_SIZE, which setup() derives from the window's width (line 78)
CELL_SIZE == 1

(***************************************************************************)
(* Units.                                                                  *)
(***************************************************************************)
\* PI in units of 3 degrees
PI == 60
TWO_PI == 2 * PI
\* TURN_ANGLE = PI / 6 and SENSE_ANGLE = PI / 2.5, in the same units
TURN_ANGLE == PI \div 6
SENSE_ANGLE == (2 * PI) \div 5
\* pixel coordinates are held in 1 / PosScale pixel
PosScale == 1000
\* pheromone values are held in 1 / PherScale
PherScale == 1000
\* a rate is held in 1 / RateScale
RateScale == 4000
\* the spacing of the numbers next to 1.0 is 1 / FactorScale: what 1.0 - evapRate
\* (line 425) is rounded to
FactorScale == 1000

(***************************************************************************)
(* Helpers of the host language.                                           *)
(***************************************************************************)
\* JavaScript's remainder: the sign of the result is the sign of the dividend
JsRem(a, b) == IF a >= 0 THEN a % b ELSE 0 - ((0 - a) % b)

Abs(a) == IF a < 0 THEN 0 - a ELSE a

Max2(a, b) == IF a >= b THEN a ELSE b

Min2(a, b) == IF a <= b THEN a ELSE b

\* p5's constrain(n, low, high)
Constrain(n, low, high) == Max2(Min2(n, high), low)

\* createGrid(cols, rows, defaultValue)
createGrid(cols, rows, defaultValue) ==
  [p \in (0 .. cols - 1) \X (0 .. rows - 1) |-> defaultValue]

(***************************************************************************)
(* generateMaze                                                            *)
(***************************************************************************)
\* a slip in lines 162-163: an even dimension is kept
MazeDimKeepsEven(n) == IF n < 3 THEN 3 ELSE n

\* lines 162-165: an even dimension is decremented, then floored at 3
MazeDim(n) ==
  LET odd == IF JsRem(n, 2) = 0 THEN n - 1 ELSE n
  IN  IF odd < 3 THEN 3 ELSE odd

\* lines 175-176: floor(random((dim - 1) / 2)) * 2 + 1, random(n) in [0, n)
StartCoords(dim) == {2 * k + 1 : k \in 0 .. ((dim - 1) \div 2) - 1}

\* a slip in line 207: a visited cell is taken for a neighbour, too
NeighborsIncludingVisited(current, visited, mazeCols, mazeRows) ==
  {n \in {<<current[1], current[2] - 2>>, <<current[1] + 2, current[2]>>,
          <<current[1], current[2] + 2>>, <<current[1] - 2, current[2]>>} :
     /\ n[1] > 0 /\ n[1] < mazeCols - 1
     /\ n[2] > 0 /\ n[2] < mazeRows - 1}

\* lines 198-211: the unvisited cells two steps away, strictly inside the border
Neighbors(current, visited, mazeCols, mazeRows) ==
  {n \in {<<current[1], current[2] - 2>>, <<current[1] + 2, current[2]>>,
          <<current[1], current[2] + 2>>, <<current[1] - 2, current[2]>>} :
     /\ n[1] > 0 /\ n[1] < mazeCols - 1
     /\ n[2] > 0 /\ n[2] < mazeRows - 1
     /\ ~visited[n]}

\* a slip in lines 222-224: the cell carved is the current cell, not the wall
WallCellNotCarved(current, chosen) == current

\* lines 222-223: the wall cell between current and chosen
WallCell(current, chosen) ==
  <<current[1] + (chosen[1] - current[1]) \div 2,
    current[2] + (chosen[2] - current[2]) \div 2>>

\* lines 167-191: the locals of generateMaze before the loop, for one start cell
GenStart(cols, rows, startX, startY) ==
  LET mazeCols == MazeDim(cols)
      mazeRows == MazeDim(rows)
      bad == startX < 0 \/ startX >= mazeCols \/ startY < 0 \/ startY >= mazeRows
      start == IF bad THEN <<1, 1>> ELSE <<startX, startY>>
  IN  [pc |-> "loop", cols |-> cols, rows |-> rows,
       mazeCols |-> mazeCols, mazeRows |-> mazeRows,
       start |-> start,
       maze |-> [createGrid(mazeCols, mazeRows, 1) EXCEPT ![start] = 0],
       visited |-> [createGrid(mazeCols, mazeRows, FALSE) EXCEPT ![start] = TRUE],
       stack |-> <<start>>,
       pushes |-> 1, pops |-> 0]

\* lines 213-230: carve towards the chosen neighbour and push it
GenCarve(g, chosen) ==
  LET current == g.stack[Len(g.stack)]
      carved == [c \in DOMAIN g.maze |->
                   IF c = WallCell(current, chosen) \/ c = chosen THEN 0 ELSE g.maze[c]]
  IN  [pc |-> g.pc, cols |-> g.cols, rows |-> g.rows,
       mazeCols |-> g.mazeCols, mazeRows |-> g.mazeRows, start |-> g.start,
       maze |-> carved,
       visited |-> [c \in DOMAIN g.visited |-> c = chosen \/ g.visited[c]],
       stack |-> Append(g.stack, chosen),
       pushes |-> g.pushes + 1, pops |-> g.pops]

\* a slip in line 234: the top of the stack is peeked at again, not popped
GenPopKeepsTop(g) == g

\* lines 232-235: backtrack
GenPop(g) ==
  [g EXCEPT !.stack = SubSeq(g.stack, 1, Len(g.stack) - 1), !.pops = g.pops + 1]

\* lines 250-256: force the two corner cells open and return
GenReturn(g) ==
  LET m1 == [g.maze EXCEPT ![<<1, 1>>] = 0]
      m2 == IF g.mazeCols > 2 /\ g.mazeRows > 2
            THEN [m1 EXCEPT ![<<g.mazeCols - 2, g.mazeRows - 2>>] = 0]
            ELSE m1
  IN  [g EXCEPT !.pc = "done", !.maze = m2]

(***************************************************************************)
(* findValidPosition                                                       *)
(***************************************************************************)
\* the null that findValidPosition returns
Null == << >>

\* lines 437-440
isValidGridPos(x, y, cols, rows) == x >= 0 /\ x < cols /\ y >= 0 /\ y < rows

\* a slip in line 305: the search stops at the smaller dimension
RingLimitMin(cols, rows) == Min2(cols, rows)

\* line 305: radius < max(cols, rows)
RingLimit(cols, rows) == Max2(cols, rows)

\* lines 306-316: the cells of one ring that the two inner loops return on
RingHits(targetX, targetY, cols, rows, mz, radius) ==
  {d \in ((0 - radius) .. radius) \X ((0 - radius) .. radius) :
     /\ ~(Abs(d[1]) # radius /\ Abs(d[2]) # radius)
     /\ isValidGridPos(targetX + d[1], targetY + d[2], cols, rows)
     /\ mz[<<targetX + d[1], targetY + d[2]>>] = 0}

\* the loops run i upwards and, for each i, j upwards: the first hit in that order
FirstInScanOrder(hits) ==
  CHOOSE d \in hits : \A e \in hits : d[1] < e[1] \/ (d[1] = e[1] /\ d[2] <= e[2])

\* lines 305-318: the loop over the radius, from radius on
RECURSIVE RingSearch(_, _, _, _, _, _)
RingSearch(targetX, targetY, cols, rows, mz, radius) ==
  IF ~(radius < RingLimit(cols, rows)) THEN Null
  ELSE LET hits == RingHits(targetX, targetY, cols, rows, mz, radius)
       IN  IF hits # {}
           THEN LET d == FirstInScanOrder(hits) IN <<targetX + d[1], targetY + d[2]>>
           ELSE RingSearch(targetX, targetY, cols, rows, mz, radius + 1)

\* a slip in lines 299-303: the target itself is not looked at before the rings
findValidPositionSkipsTarget(targetX, targetY, cols, rows, mz) ==
  RingSearch(Constrain(targetX, 0, cols - 1), Constrain(targetY, 0, rows - 1),
             cols, rows, mz, 1)

\* lines 293-319
findValidPosition(targetX, targetY, cols, rows, mz) ==
  LET tx == Constrain(targetX, 0, cols - 1)
      ty == Constrain(targetY, 0, rows - 1)
  IN  IF mz[<<tx, ty>>] = 0 THEN <<tx, ty>>
      ELSE RingSearch(tx, ty, cols, rows, mz, 1)

(***************************************************************************)
(* Vectors and angles (p5.Vector, atan2)                                   *)
(***************************************************************************)
\* PosScale * sin of 0, 3, ..., 90 degrees
SinQuarter ==
  <<0, 52, 105, 156, 208, 259, 309, 358, 407, 454, 500, 545, 588, 629, 669, 707,
    743, 777, 809, 839, 866, 891, 914, 934, 951, 966, 978, 988, 995, 999, 1000>>

\* Vector.heading(): the angle folded into (-PI, PI]
Heading(a) == LET m == a % TWO_PI IN IF m > PI THEN m - TWO_PI ELSE m

Sin(a) ==
  LET h == Heading(a)
      q == IF Abs(h) <= PI \div 2 THEN Abs(h) ELSE PI - Abs(h)
  IN  IF h < 0 THEN 0 - SinQuarter[q + 1] ELSE SinQuarter[q + 1]

Cos(a) == Sin(a + PI \div 2)

\* the heading of candidates that points most nearly along the vector (dx, dy)
NearestHeading(dy, dx, candidates) ==
  CHOOSE k \in candidates :
    \A j \in candidates : dx * Cos(k) + dy * Sin(k) >= dx * Cos(j) + dy * Sin(j)

\* the angle of the vector (dx, dy), to the nearest unit; atan2(0, 0) = 0.  The nearest
\* multiple of TURN_ANGLE is looked for first, then the nearest unit around it.
atan2(dy, dx) ==
  IF dx = 0 /\ dy = 0 THEN 0
  ELSE LET coarse == NearestHeading(dy, dx, {k \in (1 - PI) .. PI : k % TURN_ANGLE = 0})
       IN  Heading(NearestHeading(dy, dx, (coarse - TURN_ANGLE) .. (coarse + TURN_ANGLE)))

\* the angular distance between two headings
AngularDistance(a, b) == Abs(Heading(a - b))

\* dist(x1, y1, x2, y2) <= r, for integer r
WithinRadius(p, q, r) ==
  (p[1] - q[1]) * (p[1] - q[1]) + (p[2] - q[2]) * (p[2] - q[2]) <= r * r

\* lines 442-445
gridToPixel(gridX, gridY) ==
  <<((2 * gridX + 1) * CELL_SIZE * PosScale) \div 2,
    ((2 * gridY + 1) * CELL_SIZE * PosScale) \div 2>>

\* lines 447-450
pixelToGrid(pixelX, pixelY) ==
  <<pixelX \div (CELL_SIZE * PosScale), pixelY \div (CELL_SIZE * PosScale)>>

(***************************************************************************)
(* Random draws                                                            *)
(***************************************************************************)
\* p5.Vector.random2D(): the headings drawn
RandomHeadings == {0, PI \div 2, PI}

\* random(-TURN_ANGLE * 0.5, TURN_ANGLE * 0.5): the two ends of the range
HalfTurns == {0 - (TURN_ANGLE \div 2), (TURN_ANGLE \div 2) - 1}

\* lines 531-533: no perturbation (0), or the largest one
Perturbations == {0, 0 - (TURN_ANGLE \div 2)}

\* random(0, PHEROMONE_MAX * 0.1): the two ends of the range
Jitters == {0, (PHEROMONE_MAX * PherScale) \div 10 - 1}

(***************************************************************************)
(* class Ant                                                               *)
(***************************************************************************)
\* lines 456-464; heading is the direction random2D() drew
NewAnt(gridX, gridY, heading) ==
  [pos |-> gridToPixel(gridX, gridY), vel |-> heading, state |-> "searching",
   gridPos |-> <<gridX, gridY>>, history |-> << >>, charge |-> PHEROMONE_DURATION]

\* lines 475-480
updateGridPos(a) ==
  LET currentGrid == pixelToGrid(a.pos[1], a.pos[2])
  IN  [a EXCEPT !.gridPos = <<Constrain(currentGrid[1], 0, GRID_COLS - 1),
                              Constrain(currentGrid[2], 0, GRID_ROWS - 1)>>]

\* a slip in line 484: the last entry is not compared
addToHistoryNoDedup(a) ==
  LET pushed == Append(a.history, a.gridPos)
  IN  [a EXCEPT !.history = IF Len(pushed) > ANT_HISTORY_LENGTH
                            THEN SubSeq(pushed, 2, Len(pushed)) ELSE pushed]

\* lines 482-490
addToHistory(a) ==
  IF Len(a.history) = 0 \/ a.history[Len(a.history)] # a.gridPos
  THEN LET pushed == Append(a.history, a.gridPos)
       IN  [a EXCEPT !.history = IF Len(pushed) > ANT_HISTORY_LENGTH
                                 THEN SubSeq(pushed, 2, Len(pushed)) ELSE pushed]
  ELSE a

\* lines 492-499: every entry but the last
wasRecentlyVisited(a, cell) ==
  \E k \in 1 .. Len(a.history) - 1 : a.history[k] = cell

\* a slip in line 505: the food is detected strictly inside the radius only
FoodDetectedStrict(gridPos) ==
  (gridPos[1] - foodPos[1]) * (gridPos[1] - foodPos[1])
    + (gridPos[2] - foodPos[2]) * (gridPos[2] - foodPos[2])
    < FOOD_DETECTION_RADIUS * FOOD_DETECTION_RADIUS

\* lines 504-505
FoodDetected(gridPos) == WithinRadius(gridPos, foodPos, FOOD_DETECTION_RADIUS)

\* lines 511-512
ColonyDetected(gridPos) == WithinRadius(gridPos, colonyPos, COLONY_DETECTION_RADIUS)

\* a slip in lines 506-516: the food is counted when it is picked up, too
checkEnvironmentCountsPickup(a, heading) ==
  IF a.state = "searching"
  THEN IF FoodDetected(a.gridPos)
       THEN [ant |-> [a EXCEPT !.state = "returning", !.vel = Heading(a.vel + PI),
                               !.charge = PHEROMONE_DURATION],
             found |-> 1, transitions |-> 1]
       ELSE [ant |-> a, found |-> 0, transitions |-> 0]
  ELSE IF ColonyDetected(a.gridPos)
       THEN [ant |-> [a EXCEPT !.state = "searching", !.vel = heading,
                               !.charge = PHEROMONE_DURATION],
             found |-> 1, transitions |-> 1]
       ELSE [ant |-> a, found |-> 0, transitions |-> 0]

\* a slip in lines 508 and 515: the charge is not reset
checkEnvironmentKeepsCharge(a, heading) ==
  IF a.state = "searching"
  THEN IF FoodDetected(a.gridPos)
       THEN [ant |-> [a EXCEPT !.state = "returning", !.vel = Heading(a.vel + PI)],
             found |-> 0, transitions |-> 1]
       ELSE [ant |-> a, found |-> 0, transitions |-> 0]
  ELSE IF ColonyDetected(a.gridPos)
       THEN [ant |-> [a EXCEPT !.state = "searching", !.vel = heading],
             found |-> 1, transitions |-> 1]
       ELSE [ant |-> a, found |-> 0, transitions |-> 0]

\* a slip in line 510: the test for the colony is a second if, not an else, so an ant
\* that has just become Returning is tested for the colony in the same call
checkEnvironmentTwoTests(a, heading) ==
  IF a.state = "searching"
  THEN IF FoodDetected(a.gridPos)
       THEN IF ColonyDetected(a.gridPos)
            THEN [ant |-> [a EXCEPT !.vel = heading, !.charge = PHEROMONE_DURATION],
                  found |-> 1, transitions |-> 2]
            ELSE [ant |-> [a EXCEPT !.state = "returning", !.vel = Heading(a.vel + PI),
                                    !.charge = PHEROMONE_DURATION],
                  found |-> 0, transitions |-> 1]
       ELSE [ant |-> a, found |-> 0, transitions |-> 0]
  ELSE IF ColonyDetected(a.gridPos)
       THEN [ant |-> [a EXCEPT !.state = "searching", !.vel = heading,
                               !.charge = PHEROMONE_DURATION],
             found |-> 1, transitions |-> 1]
       ELSE [ant |-> a, found |-> 0, transitions |-> 0]

\* lines 501-519; heading is the direction random2D() draws in line 514;
\* found is what line 516 adds to foodFoundCount, transitions the number of
\* assignments to this.state
checkEnvironment(a, heading) ==
  IF a.state = "searching"
  THEN IF FoodDetected(a.gridPos)
       THEN [ant |-> [a EXCEPT !.state = "returning", !.vel = Heading(a.vel + PI),
                               !.charge = PHEROMONE_DURATION],
             found |-> 0, transitions |-> 1]
       ELSE [ant |-> a, found |-> 0, transitions |-> 0]
  ELSE IF ColonyDetected(a.gridPos)
       THEN [ant |-> [a EXCEPT !.state = "searching", !.vel = heading,
                               !.charge = PHEROMONE_DURATION],
             found |-> 1, transitions |-> 1]
       ELSE [ant |-> a, found |-> 0, transitions |-> 0]

\* the directions in which line 514 can draw: one when nothing is drawn
EnvironmentDraws(a) ==
  IF a.state = "returning" /\ ColonyDetected(a.gridPos) THEN RandomHeadings ELSE {0}

(***************************************************************************)
(* Ant.senseAndDecideAngle                                                 *)
(***************************************************************************)
\* SENSE_RADIUS = 1.1 (line 11), in thousandths
SENSE_RADIUS_MILLI == 1100

\* line 575: the angle offsets -SENSE_ANGLE / 2, ..., SENSE_ANGLE / 2 in steps of
\* SENSE_ANGLE / 4 (the halves and quarters are exact in floating point)
AngleOffsets == [k \in 1 .. 5 |-> (k - 3) * (SENSE_ANGLE \div 4)]

\* line 578: distMultiplier = 0.5, 1.0, 1.5: the loop runs while distMultiplier <= 1.5
DistMultiplierCount == 3

\* line 579: senseDist for the m-th distMultiplier (0.5 * m), in units of 1 / PosScale pixel
senseDist(m) == (CELL_SIZE * PosScale * SENSE_RADIUS_MILLI * 5 * m) \div 10000

\* line 580: senseVec.mult(senseDist) scales senseVec in place, so the m-th probe of
\* an angle is as far away as the product of the first m values of senseDist; the
\* length of senseVec after the m-th mult, in units of 1 / PosScale pixel
RECURSIVE senseVecLength(_)
senseVecLength(m) ==
  IF m = 0 THEN PosScale ELSE (senseVecLength(m - 1) * senseDist(m)) \div PosScale

\* lines 576-581: checkGrid of the probe at checkAngle, m-th distance
checkGrid(a, checkAngle, m) ==
  pixelToGrid(a.pos[1] + (Cos(checkAngle) * senseVecLength(m)) \div PosScale,
              a.pos[2] + (Sin(checkAngle) * senseVecLength(m)) \div PosScale)

\* line 584
ProbeEligible(a, cell) ==
  /\ isValidGridPos(cell[1], cell[2], GRID_COLS, GRID_ROWS)
  /\ maze[cell] = 0
  /\ ~wasRecentlyVisited(a, cell)

\* the probes in the order of the two loops: <<angle index, distance index>>
Probes == [n \in 1 .. 5 * DistMultiplierCount |->
             <<((n - 1) \div DistMultiplierCount) + 1, ((n - 1) % DistMultiplierCount) + 1>>]

\* lines 575-581: the points the two loops probe, in their order: the offset of
\* checkAngle from the heading, the distance of checkPos from the ant in units of
\* 1 / PosScale pixel, and checkGrid
ProbePoints(a) ==
  [n \in 1 .. Len(Probes) |->
     [offset |-> AngleOffsets[Probes[n][1]],
      dist |-> senseVecLength(Probes[n][2]),
      cell |-> checkGrid(a, a.vel + AngleOffsets[Probes[n][1]], Probes[n][2])]]

\* line 573
targetPheromones(a) ==
  IF a.state = "searching" THEN returnPheromones ELSE explorePheromones

\* lines 575-594: the pairs <<maxPheromone, bestAngle>> the loops can end with
\* after the first n probes, over the draws of the jitter
RECURSIVE SenseLoop(_, _)
SenseLoop(a, n) ==
  IF n = 0 THEN {<<0 - PherScale, a.vel>>}
  ELSE LET before == SenseLoop(a, n - 1)
           checkAngle == a.vel + AngleOffsets[Probes[n][1]]
           cell == checkGrid(a, checkAngle, Probes[n][2])
       IN  IF ProbeEligible(a, cell)
           THEN LET pheromoneLevel == targetPheromones(a)[cell]
                IN  {IF pheromoneLevel * FOLLOW_STRENGTH_WEIGHT + jitter > s[1]
                     THEN <<pheromoneLevel * FOLLOW_STRENGTH_WEIGHT + jitter, checkAngle>>
                     ELSE s : s \in before, jitter \in Jitters}
           ELSE before

\* line 560
targetGridPos(a) == IF a.state = "searching" THEN foodPos ELSE colonyPos

\* line 563
GoalSensed(a) == WithinRadius(a.gridPos, targetGridPos(a), GOAL_SENSE_RADIUS)

\* lines 557-600: the angles senseAndDecideAngle can return
senseAndDecideAngle(a) ==
  IF GoalSensed(a)
  THEN LET targetPixelPos == gridToPixel(targetGridPos(a)[1], targetGridPos(a)[2])
       IN  {atan2(targetPixelPos[2] - a.pos[2], targetPixelPos[1] - a.pos[1])}
  ELSE UNION {IF s[1] <= 0 THEN {a.vel + d : d \in HalfTurns} ELSE {s[2]} :
                s \in SenseLoop(a, 5 * DistMultiplierCount)}

(***************************************************************************)
(* Ant.move                                                                *)
(***************************************************************************)
\* a slip in line 529: the turn is not clamped
TurnUnclamped(desiredAngle, currentAngle) == Heading(desiredAngle - currentAngle)

\* lines 526-529: the turn towards desiredAngle
Turn(desiredAngle, currentAngle) ==
  LET angleDiff == Heading(desiredAngle - currentAngle)
  IN  Constrain(angleDiff, 0 - TURN_ANGLE, TURN_ANGLE)

\* a slip in line 540: the maze is not looked at
MoveAllowedThroughWalls(nextGrid) ==
  isValidGridPos(nextGrid[1], nextGrid[2], GRID_COLS, GRID_ROWS)

\* a slip in line 540: the cell is compared with 0 (Path) instead of 1 (Wall)
MoveAllowedIntoWalls(nextGrid) ==
  isValidGridPos(nextGrid[1], nextGrid[2], GRID_COLS, GRID_ROWS) /\ maze[nextGrid] # 0

\* line 540
MoveAllowed(nextGrid) ==
  isValidGridPos(nextGrid[1], nextGrid[2], GRID_COLS, GRID_ROWS) /\ maze[nextGrid] # 1

\* lines 521-555; perturbation is what lines 531-533 add, heading the direction
\* random2D() draws in line 546.  turned is the heading before the perturbation,
\* nextPos the tentative position of line 536.
move(a, desiredAngle, perturbation, heading) ==
  LET currentAngle == a.vel
      turned == currentAngle + Turn(desiredAngle, currentAngle)
      newAngle == turned + perturbation
      vel == Heading(newAngle)
      nextPos == <<a.pos[1] + Cos(vel) * ANT_SPEED, a.pos[2] + Sin(vel) * ANT_SPEED>>
      nextGrid == pixelToGrid(nextPos[1], nextPos[2])
      ok == MoveAllowed(nextGrid)
      pos == IF ok THEN nextPos ELSE a.pos
      width == CELL_SIZE * GRID_COLS * PosScale
      height == CELL_SIZE * GRID_ROWS * PosScale
  IN  [ant |-> [a EXCEPT !.vel = IF ok THEN vel ELSE heading,
                         !.pos = <<Constrain(pos[1], 0, width), Constrain(pos[2], 0, height)>>],
       turned |-> Heading(turned),
       nextPos |-> nextPos,
       rejected |-> ~ok,
       clamped |-> pos # <<Constrain(pos[1], 0, width), Constrain(pos[2], 0, height)>>]

\* the directions in which line 546 can draw: one when nothing is drawn
WallDraws(a, desiredAngle, perturbation) ==
  IF move(a, desiredAngle, perturbation, 0).rejected THEN RandomHeadings ELSE {0}

(***************************************************************************)
(* Ant.depositPheromone, updatePheromones                                  *)
(***************************************************************************)
\* a slip in lines 614/619: the sum is not clamped
DepositedUnclamped(value, charge, rate) ==
  value + Max2(0, (charge * rate * PherScale) \div PHEROMONE_DURATION)

\* lines 611-614 and 616-619: the new value of the cell
Deposited(value, charge, rate) ==
  LET currentDepositionRate == Max2(0, (charge * rate * PherScale) \div PHEROMONE_DURATION)
  IN  Min2(value + currentDepositionRate, PHEROMONE_MAX * PherScale)

\* lines 606-609: whether depositPheromone writes
Deposits(a) ==
  ~(a.charge <= 0) /\ isValidGridPos(a.gridPos[1], a.gridPos[2], GRID_COLS, GRID_ROWS)

\* a slip in lines 613-614: the deposit is written into the maze grid
depositPheromoneIntoMaze(a) ==
  [explore |-> explorePheromones, return |-> returnPheromones,
   maze |-> IF Deposits(a) THEN [maze EXCEPT ![a.gridPos] = 1 - @] ELSE maze]

\* lines 602-622: the grids of simulationConfig after the deposit
depositPheromone(a) ==
  IF ~Deposits(a)
  THEN [explore |-> explorePheromones, return |-> returnPheromones, maze |-> maze]
  ELSE IF a.state = "searching"
  THEN [explore |-> [explorePheromones EXCEPT
                       ![a.gridPos] = Deposited(@, a.charge, DEPOSITION_RATE_EXPLORE)],
        return |-> returnPheromones, maze |-> maze]
  ELSE [explore |-> explorePheromones,
        return |-> [returnPheromones EXCEPT
                      ![a.gridPos] = Deposited(@, a.charge, DEPOSITION_RATE_RETURN)],
        maze |-> maze]

\* a slip in lines 425-426: the rate is added to 1.0
OnePlus(rate) == FactorScale + (rate * FactorScale) \div RateScale

\* lines 425-426: 1.0 - evapRate, rounded to the nearest number there is (a tie goes
\* to the even one), in 1 / FactorScale
OneMinus(rate) ==
  LET exact == (RateScale - rate) * FactorScale
      below == exact \div RateScale
      rest == 2 * (exact % RateScale)
  IN  IF rest > RateScale \/ (rest = RateScale /\ below % 2 = 1) THEN below + 1 ELSE below

\* lines 425-428: one cell after evaporation
Evaporated(value) ==
  LET decayed == (value * OneMinus(EVAPORATION_RATE)) \div FactorScale
  IN  IF decayed * 100 < PherScale THEN 0 ELSE decayed

\* lines 422-429: a grid after the two loops
EvaporatedGrid(grid) == [c \in DOMAIN grid |-> Evaporated(grid[c])]

\* EVAPORATION_RATE as line 6 sets it, in 1 / RateScale
ConfiguredRate == (EVAPORATION_PERMILLE * RateScale) \div 1000

NoGen == [pc |-> "none"]

\* no sketch is running: the functions are called on their own
SimIdle ==
  /\ EVAPORATION_RATE = ConfiguredRate
  /\ explorePheromones = << >>
  /\ returnPheromones = << >>
  /\ ants = << >>
  /\ colonyPos = << >>
  /\ foodPos = << >>
  /\ foodFoundCount = 0
  /\ lastAntSpawnTime = 0
  /\ millis = 0
  /\ pc = "none"
  /\ i = 0
  /\ frame = [n |-> 0, log |-> << >>, count |-> 0, pickups |-> 0]

(***************************************************************************)
(* setup() and draw()                                                      *)
(***************************************************************************)
\* lines 193-256: the grids generateMaze can return from the loop state g
RECURSIVE GenRun(_)
GenRun(g) ==
  IF Len(g.stack) = 0 THEN {GenReturn(g)}
  ELSE LET neighbors == Neighbors(g.stack[Len(g.stack)], g.visited, g.mazeCols, g.mazeRows)
       IN  IF neighbors = {} THEN GenRun(GenPop(g))
           ELSE UNION {GenRun(GenCarve(g, chosen)) : chosen \in neighbors}

\* lines 159-257: the results generateMaze(cols, rows) can return
generateMaze(cols, rows) ==
  UNION {GenRun(GenStart(cols, rows, startX, startY)) :
           startX \in StartCoords(MazeDim(cols)), startY \in StartCoords(MazeDim(rows))}

\* line 323: the number of iterations of the loop, i < NUM_ANTS / 10
InitialAnts == (NUM_ANTS + 9) \div 10

\* a slip in lines 123-128: the ants are updated before the pheromones evaporate
DrawStepsAntsFirst == <<"updateAndDrawAnts", "updatePheromones", "spawnNewAnts">>

\* the statements of draw() that change the state, in their order (lines 123-129)
DrawSteps == <<"updatePheromones", "updateAndDrawAnts", "spawnNewAnts">>

\* the statement of draw() after the one at position n, "draw" after the last
StepAfter(n) == IF n < Len(DrawSteps) THEN DrawSteps[n + 1] ELSE "draw"

Position(step) == CHOOSE n \in 1 .. Len(DrawSteps) : DrawSteps[n] = step

\* a slip in line 406: the loop runs upwards
NextIndexAscending(k, n) == IF k = n THEN 0 ELSE k + 1

\* line 406: i = ants.length - 1 (the last ant; 0 when there is none)
FirstIndex(n) == n

\* line 406: i--, until i >= 0 fails (0 when the loop is over)
NextIndex(k, n) == k - 1

\* the time between two frames, in milliseconds
FrameTimes == {SPAWN_INTERVAL}

\* n: the calls of draw() so far; log: what the current call has done; count:
\* foodFoundCount when it began; pickups: the transitions from Searching to Returning
\* since setup
NoFrame == [n |-> 0, log |-> << >>, count |-> 0, pickups |-> 0]

\* the state before setup(): lines 2-42
Init ==
  /\ GRID_COLS \in {SimCols - 2, SimCols, SimCols + 2}
  /\ GRID_ROWS = SimRows
  /\ EVAPORATION_RATE = ConfiguredRate
  /\ maze = << >>
  /\ explorePheromones = << >>
  /\ returnPheromones = << >>
  /\ ants = << >>
  /\ colonyPos = Null
  /\ foodPos = Null
  /\ foodFoundCount = 0
  /\ lastAntSpawnTime = 0
  /\ millis = 0
  /\ pc = "setup"
  /\ i = 0
  /\ frame = NoFrame
  /\ gen = NoGen
  /\ fvp = [pc |-> "none"]

\* a slip in lines 110-111: the loop is not stopped
SetupFailedKeepsLooping == "draw"

\* lines 110-111: noLoop() and return, after which draw() is not called
SetupFailed == "stopped"

\* lines 61-118, for a result of generateMaze
SetupOn(mazeResult) ==
  /\ pc = "setup"
  /\   LET cols == mazeResult.mazeCols
           rows == mazeResult.mazeRows
           colony == findValidPosition(1, 1, cols, rows, mazeResult.maze)
           food == findValidPosition(cols - 2, rows - 2, cols, rows, mazeResult.maze)
       IN  /\ maze' = mazeResult.maze
           /\ GRID_COLS' = cols
           /\ GRID_ROWS' = rows
           /\ explorePheromones' = createGrid(cols, rows, 0)
           /\ returnPheromones' = createGrid(cols, rows, 0)
           /\ colonyPos' = colony
           /\ foodPos' = food
           /\ IF colony = Null \/ food = Null
              THEN /\ pc' = SetupFailed
                   /\ UNCHANGED <<ants, lastAntSpawnTime>>
              ELSE /\ pc' = "draw"
                   /\ ants' \in [1 .. InitialAnts ->
                                   {NewAnt(colony[1], colony[2], heading) : heading \in RandomHeadings}]
                   /\ lastAntSpawnTime' = millis
  /\ UNCHANGED <<EVAPORATION_RATE, foodFoundCount, millis, i, frame, gen, fvp>>

\* lines 59-118
Setup ==
  /\ pc = "setup"
  /\ \E mazeResult \in generateMaze(GRID_COLS, GRID_ROWS) : SetupOn(mazeResult)

\* the loop index when the statement after position n is entered
IndexFor(n) == IF StepAfter(n) = "updateAndDrawAnts" THEN FirstIndex(Len(ants)) ELSE 0

\* a call of draw() begins, some time after the last one
Draw ==
  /\ pc = "draw"
  /\ frame.n < MaxFrames
  /\ \E t \in FrameTimes : millis' = millis + t
  /\ pc' = StepAfter(0)
  /\ i' = IndexFor(0)
  /\ frame' = [n |-> frame.n + 1, log |-> << >>, count |-> foodFoundCount,
               pickups |-> frame.pickups]
  /\ UNCHANGED <<EVAPORATION_RATE, GRID_COLS, GRID_ROWS, maze, explorePheromones, returnPheromones, ants,
                 colonyPos, foodPos, foodFoundCount, lastAntSpawnTime, gen, fvp>>

\* lines 416-431
UpdatePheromones ==
  /\ pc = "updatePheromones"
  /\ explorePheromones' = EvaporatedGrid(explorePheromones)
  /\ returnPheromones' = EvaporatedGrid(returnPheromones)
  /\ frame' = [frame EXCEPT !.log = Append(@, [kind |-> "evaporation"])]
  /\ pc' = StepAfter(Position("updatePheromones"))
  /\ i' = IndexFor(Position("updatePheromones"))
  /\ UNCHANGED <<EVAPORATION_RATE, GRID_COLS, GRID_ROWS, maze, ants, colonyPos, foodPos, foodFoundCount,
                 lastAntSpawnTime, millis, gen, fvp>>

\* the ants whose deposits of this frame are in the grids
DepositorsSoFar == {frame.log[k].ant : k \in {n \in 1 .. Len(frame.log) :
                                              frame.log[n].kind = "update" /\ frame.log[n].deposited}}

\* the cells in which grids differs from the pheromone grids: <<grid, cell>>
Written(grids) ==
  {<<"explore", c>> : c \in {d \in DOMAIN explorePheromones :
                                grids.explore[d] # explorePheromones[d]}}
    \cup {<<"return", c>> : c \in {d \in DOMAIN returnPheromones :
                                     grids.return[d] # returnPheromones[d]}}

\* lines 406-408 and 466-473: one iteration of the loop, ants[i].update()
AntUpdate ==
  /\ pc = "updateAndDrawAnts"
  /\ i >= 1
  /\ LET a1 == updateGridPos(ants[i])
     IN  \E envHeading \in EnvironmentDraws(a1) :
           LET env == checkEnvironment(a1, envHeading)
               a2 == [env.ant EXCEPT !.charge = Max2(0, @ - 1)]
           IN  \E desiredAngle \in senseAndDecideAngle(a2), perturbation \in Perturbations :
                 \E wallHeading \in WallDraws(a2, desiredAngle, perturbation) :
                   LET moved == move(a2, desiredAngle, perturbation, wallHeading)
                       a3 == moved.ant
                       grids == depositPheromone(a3)
                       a4 == addToHistory(a3)
                   IN  /\ ants' = [ants EXCEPT ![i] = a4]
                       /\ foodFoundCount' = foodFoundCount + env.found
                       /\ explorePheromones' = grids.explore
                       /\ returnPheromones' = grids.return
                       /\ maze' = grids.maze
                       /\ frame' = [frame EXCEPT
                            !.pickups = IF ants[i].state = "searching" /\ env.transitions > 0
                                        THEN @ + 1 ELSE @,
                            !.log = Append(@,
                            [kind |-> "update", ant |-> i,
                             transitions |-> env.transitions,
                             gridPos |-> a1.gridPos,
                             pos |-> ants[i].pos, nextPos |-> moved.nextPos,
                             posAfter |-> a4.pos,
                             chargeBefore |-> ants[i].charge,
                             written |-> Written(grids),
                             before |-> ants[i].state, after |-> a4.state,
                             heading |-> ants[i].vel, moveFrom |-> a2.vel,
                             desired |-> desiredAngle, turned |-> moved.turned,
                             final |-> a4.vel, sensed |-> ~GoalSensed(a2),
                             probes |-> IF GoalSensed(a2) THEN << >> ELSE ProbePoints(a2),
                             rejected |-> moved.rejected, clamped |-> moved.clamped,
                             charge |-> a3.charge, deposited |-> Deposits(a3),
                             seen |-> DepositorsSoFar,
                             shifted |-> Len(a3.history) = ANT_HISTORY_LENGTH
                                           /\ a4.history # a3.history])]
  /\ i' = NextIndex(i, Len(ants))
  /\ UNCHANGED <<EVAPORATION_RATE, GRID_COLS, GRID_ROWS, colonyPos, foodPos,
                 lastAntSpawnTime, millis, pc, gen, fvp>>

\* line 406: the loop of updateAndDrawAnts ends
AntsDone ==
  /\ pc = "updateAndDrawAnts"
  /\ i = 0
  /\ pc' = StepAfter(Position("updateAndDrawAnts"))
  /\ i' = IndexFor(Position("updateAndDrawAnts"))
  /\ UNCHANGED <<EVAPORATION_RATE, GRID_COLS, GRID_ROWS, maze, explorePheromones, returnPheromones, ants,
                 colonyPos, foodPos, foodFoundCount, lastAntSpawnTime, millis, frame, gen, fvp>>

\* a slip in line 332: an ant is also admitted when the time elapsed is the interval
SpawnDueAtInterval(now) ==
  Len(ants) < NUM_ANTS /\ now - lastAntSpawnTime >= SPAWN_INTERVAL

\* a slip in line 332: the length of ants is not looked at
SpawnDueAnyPopulation(now) == now - lastAntSpawnTime > SPAWN_INTERVAL

\* line 332
SpawnDue(now) ==
  Len(ants) < NUM_ANTS /\ now - lastAntSpawnTime > SPAWN_INTERVAL

\* lines 330-336
SpawnNewAnts ==
  /\ pc = "spawnNewAnts"
  /\ IF SpawnDue(millis)
     THEN /\ \E heading \in RandomHeadings :
               ants' = Append(ants, NewAnt(colonyPos[1], colonyPos[2], heading))
          /\ lastAntSpawnTime' = millis
     ELSE UNCHANGED <<ants, lastAntSpawnTime>>
  /\ frame' = [frame EXCEPT !.log = Append(@,
       [kind |-> "spawn", spawned |-> Len(ants') > Len(ants),
        elapsed |-> millis - lastAntSpawnTime, population |-> Len(ants)])]
  /\ pc' = StepAfter(Position("spawnNewAnts"))
  /\ i' = IndexFor(Position("spawnNewAnts"))
  /\ UNCHANGED <<EVAPORATION_RATE, GRID_COLS, GRID_ROWS, maze, explorePheromones, returnPheromones,
                 colonyPos, foodPos, foodFoundCount, millis, gen, fvp>>

Next ==
  \/ Setup
  \/ Draw
  \/ UpdatePheromones
  \/ AntUpdate
  \/ AntsDone
  \/ SpawnNewAnts

Spec == Init /\ [][Next]_vars

Requests == (0 - MaxReq) .. MaxReq

\* a call generateMaze(cols, rows)
InitMaze ==
  /\ GRID_COLS \in Requests
  /\ GRID_ROWS \in Requests
  /\ maze = << >>
  /\ gen = [pc |-> "call", cols |-> GRID_COLS, rows |-> GRID_ROWS]
  /\ fvp = [pc |-> "none"]
  /\ SimIdle

GenerateMazeBegin ==
  /\ gen.pc = "call"
  /\ \E startX \in StartCoords(MazeDim(gen.cols)), startY \in StartCoords(MazeDim(gen.rows)) :
       gen' = GenStart(gen.cols, gen.rows, startX, startY)
  /\ UNCHANGED <<GRID_COLS, GRID_ROWS, maze, simVars, fvp>>

GenerateMazeCarve ==
  /\ gen.pc = "loop"
  /\ Len(gen.stack) > 0
  /\ \E chosen \in Neighbors(gen.stack[Len(gen.stack)], gen.visited, gen.mazeCols, gen.mazeRows) :
       gen' = GenCarve(gen, chosen)
  /\ UNCHANGED <<GRID_COLS, GRID_ROWS, maze, simVars, fvp>>

GenerateMazeBacktrack ==
  /\ gen.pc = "loop"
  /\ Len(gen.stack) > 0
  /\ Neighbors(gen.stack[Len(gen.stack)], gen.visited, gen.mazeCols, gen.mazeRows) = {}
  /\ gen' = GenPop(gen)
  /\ UNCHANGED <<GRID_COLS, GRID_ROWS, maze, simVars, fvp>>

GenerateMazeReturn ==
  /\ gen.pc = "loop"
  /\ Len(gen.stack) = 0
  /\ gen' = GenReturn(gen)
  /\ UNCHANGED <<GRID_COLS, GRID_ROWS, maze, simVars, fvp>>

NextMaze ==
  \/ GenerateMazeBegin
  \/ GenerateMazeCarve
  \/ GenerateMazeBacktrack
  \/ GenerateMazeReturn

SpecMaze == InitMaze /\ [][NextMaze]_vars


\* the loop of lines 193-236 does not stop between two iterations
SpecMazeFair == SpecMaze /\ WF_vars(NextMaze)
\* the grids findValidPosition is tried on: every shape of at most FvpMaxCells cells
FvpShapes == {d \in (1 .. FvpMaxCells) \X (1 .. FvpMaxCells) : d[1] * d[2] <= FvpMaxCells}

\* a call findValidPosition(targetX, targetY) on an arbitrary grid; the target may lie
\* one cell outside of it
InitFvp ==
  /\ \E d \in FvpShapes :
       /\ GRID_COLS = d[1]
       /\ GRID_ROWS = d[2]
       /\ maze \in [(0 .. d[1] - 1) \X (0 .. d[2] - 1) -> {0, 1}]
       /\ \E targetX \in (0 - 1) .. d[1], targetY \in (0 - 1) .. d[2] :
            fvp = [pc |-> "call", targetX |-> targetX, targetY |-> targetY]
  /\ gen = NoGen
  /\ SimIdle

FindValidPositionCall ==
  /\ fvp.pc = "call"
  /\ fvp' = [fvp EXCEPT !.pc = "done"] @@
            [result |-> findValidPosition(fvp.targetX, fvp.targetY, GRID_COLS, GRID_ROWS, maze)]
  /\ UNCHANGED <<GRID_COLS, GRID_ROWS, maze, simVars, gen>>

NextFvp == FindValidPositionCall

SpecFvp == InitFvp /\ [][NextFvp]_vars


(***************************************************************************)
(* updatePheromones called again and again, with no ant to deposit         *)
(***************************************************************************)
\* the evaporation rates tried, in 1 / RateScale: the smallest ones, the configured
\* one, a half and 1
DecayRates == {1, 2, 3, ConfiguredRate, RateScale \div 2, RateScale}

\* the values a cell starts with, in 1 / PherScale: 0, the smallest value that is
\* not snapped to 0, a value in between and PHEROMONE_MAX
DecayStartValues == {0, PherScale \div 100, (PHEROMONE_MAX * PherScale) \div 2,
                     PHEROMONE_MAX * PherScale}

\* two grids of one cell; frame.log keeps the grids the first call is given
InitDecay ==
  /\ GRID_COLS = 1
  /\ GRID_ROWS = 1
  /\ EVAPORATION_RATE \in DecayRates
  /\ maze = createGrid(1, 1, 0)
  /\ explorePheromones \in [(0 .. 0) \X (0 .. 0) -> DecayStartValues]
  /\ returnPheromones \in [(0 .. 0) \X (0 .. 0) -> DecayStartValues]
  /\ frame = [n |-> 0,
              log |-> <<[kind |-> "start", explore |-> explorePheromones,
                         return |-> returnPheromones]>>,
              count |-> 0]
  /\ ants = << >>
  /\ colonyPos = Null
  /\ foodPos = Null
  /\ foodFoundCount = 0
  /\ lastAntSpawnTime = 0
  /\ millis = 0
  /\ pc = "none"
  /\ i = 0
  /\ gen = NoGen
  /\ fvp = [pc |-> "none"]

\* lines 416-431: one call of updatePheromones
UpdatePheromonesCall ==
  /\ pc = "none"
  /\ explorePheromones' = EvaporatedGrid(explorePheromones)
  /\ returnPheromones' = EvaporatedGrid(returnPheromones)
  /\ UNCHANGED <<GRID_COLS, GRID_ROWS, EVAPORATION_RATE, maze, ants, colonyPos, foodPos,
                 foodFoundCount, lastAntSpawnTime, millis, pc, i, frame, gen, fvp>>

NextDecay == UpdatePheromonesCall

\* the calls go on for ever (draw() is called for every frame)
SpecDecay == InitDecay /\ [][NextDecay]_vars /\ WF_vars(NextDecay)

(***************************************************************************)
(* spawnNewAnts called at the end of frame after frame, on the state       *)
(* setup() leaves                                                          *)
(***************************************************************************)
\* the times between two calls, in milliseconds: less than the interval, the
\* interval, more than the interval
SpawnFrameTimes == {SPAWN_INTERVAL \div 2, SPAWN_INTERVAL, SPAWN_INTERVAL + 1}

\* line 331: some time after the last call, draw() comes to its call of spawnNewAnts
SpawnNewAntsDue ==
  /\ pc = "draw"
  /\ frame.n < MaxSpawnCalls
  /\ \E t \in SpawnFrameTimes : millis' = millis + t
  /\ pc' = "spawnNewAnts"
  /\ frame' = [n |-> frame.n + 1, log |-> << >>, count |-> foodFoundCount,
               pickups |-> frame.pickups]
  /\ UNCHANGED <<EVAPORATION_RATE, GRID_COLS, GRID_ROWS, maze, explorePheromones,
                 returnPheromones, ants, colonyPos, foodPos, foodFoundCount,
                 lastAntSpawnTime, i, gen, fvp>>

NextSpawn ==
  \/ Setup
  \/ SpawnNewAntsDue
  \/ SpawnNewAnts

SpecSpawn == Init /\ [][NextSpawn]_vars

(***************************************************************************)
(* setup() and the draw loop when generateMaze is replaced by a maze that  *)
(* is given: the mazes it returns, and grids without a Path cell           *)
(***************************************************************************)
\* the results of generateMaze(cols, rows), and each of them with every cell Wall
GivenMazes(cols, rows) ==
  generateMaze(cols, rows) \cup
    {[mazeResult EXCEPT !.maze = createGrid(mazeResult.mazeCols, mazeResult.mazeRows, 1)] :
       mazeResult \in generateMaze(cols, rows)}

\* lines 59-118, with the maze given
SetupOnGivenMaze ==
  /\ pc = "setup"
  /\ \E mazeResult \in GivenMazes(GRID_COLS, GRID_ROWS) : SetupOn(mazeResult)

NextSetup ==
  \/ SetupOnGivenMaze
  \/ Draw
  \/ UpdatePheromones
  \/ AntUpdate
  \/ AntsDone
  \/ SpawnNewAnts

SpecSetup == Init /\ [][NextSetup]_vars
(***************************************************************************)
(* Claims about generateMaze                                               *)
(***************************************************************************)
PathCells(grid) == {p \in DOMAIN grid : grid[p] = 0}

Adjacent4(p, q) == Abs(p[1] - q[1]) + Abs(p[2] - q[2]) = 1

\* the Path cells reached from the cells of seen over 4-adjacent Path cells
RECURSIVE Flood(_, _)
Flood(grid, seen) ==
  LET more == {q \in PathCells(grid) \ seen : \E p \in seen : Adjacent4(p, q)}
  IN  IF more = {} THEN seen ELSE Flood(grid, seen \cup more)

\* C1: in the grid generateMaze returns, every Path cell is reached from the
\* carving start cell over 4-adjacent Path cells
C1_MazeConnected ==
  gen.pc = "done" => Flood(gen.maze, {gen.start}) = PathCells(gen.maze)

\* a returned 7 x 5 maze whose carving began away from both forced-open corners
C1_Witness ==
  /\ gen.pc = "done"
  /\ gen.mazeCols = 7 /\ gen.mazeRows = 5
  /\ gen.start = <<3, 3>>
  /\ Cardinality(PathCells(gen.maze)) = 11

IsOdd(n) == n % 2 = 1

\* C10 as stated: the final dimensions are odd and at least 3, every even request is
\* decremented by 1, an odd request of at least 3 is kept, the grid has
\* finalCols x finalRows cells
C10_AsStated ==
  gen.pc = "done" =>
    /\ IsOdd(gen.mazeCols) /\ gen.mazeCols >= 3
    /\ IsOdd(gen.mazeRows) /\ gen.mazeRows >= 3
    /\ JsRem(gen.cols, 2) = 0 => gen.mazeCols = gen.cols - 1
    /\ JsRem(gen.rows, 2) = 0 => gen.mazeRows = gen.rows - 1
    /\ (JsRem(gen.cols, 2) # 0 /\ gen.cols >= 3) => gen.mazeCols = gen.cols
    /\ (JsRem(gen.rows, 2) # 0 /\ gen.rows >= 3) => gen.mazeRows = gen.rows
    /\ DOMAIN gen.maze = (0 .. gen.mazeCols - 1) \X (0 .. gen.mazeRows - 1)

\* what C10 says of one dimension, with the floor of 3 taken into account
DimNormalised(request, final) ==
  /\ IsOdd(final) /\ final >= 3
  /\ (JsRem(request, 2) = 0 /\ request >= 4) => final = request - 1
  /\ (JsRem(request, 2) # 0 /\ request >= 3) => final = request
  /\ request < 3 => final = 3

\* C10: the final dimensions are odd and at least 3; an even request of at least 4
\* is decremented by 1, an odd request of at least 3 is kept, a request below 3
\* gives 3; the grid has exactly finalCols x finalRows cells
C10_Dimensions ==
  gen.pc = "done" =>
    /\ DimNormalised(gen.cols, gen.mazeCols)
    /\ DimNormalised(gen.rows, gen.mazeRows)
    /\ DOMAIN gen.maze = (0 .. gen.mazeCols - 1) \X (0 .. gen.mazeRows - 1)
    /\ Cardinality(DOMAIN gen.maze) = gen.mazeCols * gen.mazeRows

\* an even request that is decremented and an odd request that is kept
C10_Witness ==
  /\ gen.pc = "done"
  /\ gen.cols = 6 /\ gen.mazeCols = 5
  /\ gen.rows = 7 /\ gen.mazeRows = 7

(***************************************************************************)
(* Claims about findValidPosition                                          *)
(***************************************************************************)
Chebyshev(p, q) == Max2(Abs(p[1] - q[1]), Abs(p[2] - q[2]))

\* C7: for a target inside the grid, findValidPosition returns the target if it is
\* Path; if it is Wall, a Path cell at minimal Chebyshev distance from the target;
\* and null exactly when the grid has no Path cell
C7_FindValidPosition ==
  fvp.pc = "done" =>
    LET target == <<fvp.targetX, fvp.targetY>>
        paths == PathCells(maze)
    IN  /\ fvp.result = Null <=> paths = {}
        /\ isValidGridPos(fvp.targetX, fvp.targetY, GRID_COLS, GRID_ROWS) =>
              /\ maze[target] = 0 => fvp.result = target
              /\ (maze[target] = 1 /\ paths # {}) =>
                    /\ fvp.result \in paths
                    /\ \A q \in paths : Chebyshev(fvp.result, target) <= Chebyshev(q, target)

\* a Wall target inside the grid whose nearest Path cell is three rings away, in the
\* last ring the search visits
C7_Witness ==
  /\ fvp.pc = "done"
  /\ isValidGridPos(fvp.targetX, fvp.targetY, GRID_COLS, GRID_ROWS)
  /\ maze[<<fvp.targetX, fvp.targetY>>] = 1
  /\ fvp.result # Null
  /\ Chebyshev(fvp.result, <<fvp.targetX, fvp.targetY>>) = 3
  /\ Max2(GRID_COLS, GRID_ROWS) = 4

(***************************************************************************)
(* More claims about generateMaze                                          *)
(***************************************************************************)
\* the cells with odd coordinates strictly inside the border
OddCells(cols, rows) ==
  {p \in (1 .. cols - 2) \X (1 .. rows - 2) : IsOdd(p[1]) /\ IsOdd(p[2])}

\* the pairs of 4-adjacent Path cells, each pair once
PathLinks(grid) ==
  {l \in PathCells(grid) \X PathCells(grid) :
     /\ Adjacent4(l[1], l[2])
     /\ (l[1][1] < l[2][1] \/ (l[1][1] = l[2][1] /\ l[1][2] < l[2][2]))}

\* the Path cells of a grid form a tree: connected from root, one link fewer than cells
IsTree(grid, root) ==
  /\ Flood(grid, {root}) = PathCells(grid)
  /\ Cardinality(PathLinks(grid)) = Cardinality(PathCells(grid)) - 1

\* C14: the Path cells form a tree while the maze is carved and when it is returned;
\* in the returned maze every odd-coordinate cell inside the border is Path and there
\* are 2 * (number of those cells) - 1 Path cells, one carved wall cell per cell
\* visited after the start
C14_MazeTree ==
  /\ gen.pc \in {"loop", "done"} => IsTree(gen.maze, gen.start)
  /\ gen.pc = "done" =>
       LET odd == OddCells(gen.mazeCols, gen.mazeRows)
       IN  /\ odd \subseteq PathCells(gen.maze)
           /\ Cardinality(PathCells(gen.maze)) = 2 * Cardinality(odd) - 1

\* a returned 7 x 7 maze: 9 odd-coordinate cells joined by 8 carved wall cells
C14_Witness ==
  /\ gen.pc = "done"
  /\ gen.mazeCols = 7 /\ gen.mazeRows = 7
  /\ Cardinality(PathCells(gen.maze)) = 17
  /\ Cardinality(PathLinks(gen.maze)) = 16

\* the cells marked visited
VisitedCells(g) == {p \in DOMAIN g.visited : g.visited[p]}

\* C15: the carving loop ends.  A cell is pushed when it becomes visited and at no
\* other time, the stack never holds a cell twice, and what has been pushed is on the
\* stack or has been popped; when the loop is over every odd-coordinate cell inside
\* the border has been pushed once and popped once and the stack is empty
C15_CarvingTerminates ==
  /\ [](gen.pc \in {"loop", "done"} =>
          /\ gen.pushes = Cardinality(VisitedCells(gen))
          /\ \A j, k \in 1 .. Len(gen.stack) : gen.stack[j] = gen.stack[k] => j = k
          /\ \A k \in 1 .. Len(gen.stack) : gen.visited[gen.stack[k]]
          /\ Len(gen.stack) = gen.pushes - gen.pops)
  /\ [](gen.pc = "done" =>
          /\ VisitedCells(gen) = OddCells(gen.mazeCols, gen.mazeRows)
          /\ gen.pushes = Cardinality(OddCells(gen.mazeCols, gen.mazeRows))
          /\ gen.pops = gen.pushes
          /\ Len(gen.stack) = 0)
  /\ <>(gen.pc = "done")

\* the loop has ended for a 7 x 7 maze, after 9 pushes and 9 pops
C15_Witness ==
  /\ gen.pc = "done"
  /\ gen.mazeCols = 7 /\ gen.mazeRows = 7
  /\ gen.pushes = 9 /\ gen.pops = 9
  /\ Len(gen.stack) = 0

\* C20: in the returned maze the cells (1, 1) and (finalCols - 2, finalRows - 2) are
\* Path, so the calls of findValidPosition in setup() return exactly these cells, and
\* never null
C20_CornersOpen ==
  gen.pc = "done" =>
    LET colony == <<1, 1>>
        food == <<gen.mazeCols - 2, gen.mazeRows - 2>>
    IN  /\ gen.maze[colony] = 0
        /\ gen.maze[food] = 0
        /\ findValidPosition(1, 1, gen.mazeCols, gen.mazeRows, gen.maze) = colony
        /\ findValidPosition(gen.mazeCols - 2, gen.mazeRows - 2,
                             gen.mazeCols, gen.mazeRows, gen.maze) = food
        /\ colony # Null /\ food # Null

\* a returned 5 x 7 maze whose carving began at neither corner
C20_Witness ==
  /\ gen.pc = "done"
  /\ gen.mazeCols = 5 /\ gen.mazeRows = 7
  /\ gen.start = <<3, 3>>
  /\ gen.maze[<<3, 5>>] = 0
(***************************************************************************)
(* Claims about draw() and Ant.update                                      *)
(***************************************************************************)
IsUpdate(e) == e.kind = "update"

\* the updates of the current frame, in the order they were made
Updates == SelectSeq(frame.log, IsUpdate)

\* the positions in the log of the current frame that hold an event of a kind
LogPositions(kind) == {k \in 1 .. Len(frame.log) : frame.log[k].kind = kind}

Deposit(k) == frame.log[k].kind = "update" /\ frame.log[k].deposited

\* a frame is over: draw() has returned
FrameOver == pc = "draw" /\ frame.n > 0

\* C2: in every frame both grids evaporate exactly once, and every deposit of the
\* frame comes after that evaporation
C2_EvaporationBeforeDeposits ==
  /\ Cardinality(LogPositions("evaporation")) <= 1
  /\ \A k \in 1 .. Len(frame.log) :
       Deposit(k) => \E e \in LogPositions("evaporation") : e < k
  /\ FrameOver => Cardinality(LogPositions("evaporation")) = 1

\* a finished frame in which two ants deposited
C2_Witness ==
  /\ FrameOver
  /\ Cardinality({k \in 1 .. Len(frame.log) : Deposit(k)}) = 2
  /\ frame.log[1].kind = "evaporation"

\* the updates of the current frame that took an ant from Returning to Searching
Deliveries == {k \in 1 .. Len(Updates) :
                 Updates[k].before = "returning" /\ Updates[k].after = "searching"}

\* C3: foodFoundCount starts at 0; every step adds to it the number of ants the step
\* takes from Returning to Searching, which is at most 1; within a frame it has grown
\* by the number of such transitions, and no ant is updated twice in a frame
C3_FoodFoundCount ==
  /\ foodFoundCount = 0
  /\ [][LET delivered == {k \in 1 .. Len(ants) :
                            ants[k].state = "returning" /\ ants'[k].state = "searching"}
        IN  /\ Cardinality(delivered) <= 1
            /\ foodFoundCount' = foodFoundCount + Cardinality(delivered)]_vars
  /\ [](/\ foodFoundCount = frame.count + Cardinality(Deliveries)
        /\ \A j, k \in 1 .. Len(Updates) : Updates[j].ant = Updates[k].ant => j = k)

\* an ant has just come back to the colony with food
C3_Witness ==
  /\ foodFoundCount = 1
  /\ Deliveries # {}

DistanceSquared(p, q) ==
  (p[1] - q[1]) * (p[1] - q[1]) + (p[2] - q[2]) * (p[2] - q[2])

\* C4: an ant that is Searching when its update begins, with its recomputed grid cell
\* at distance exactly FOOD_DETECTION_RADIUS from the food, is Returning when the
\* update ends; at distance FOOD_DETECTION_RADIUS + 1 it is still Searching
C4_FoodDetection ==
  \A k \in 1 .. Len(Updates) :
    LET e == Updates[k] IN
    e.before = "searching" =>
      /\ DistanceSquared(e.gridPos, foodPos) = FOOD_DETECTION_RADIUS * FOOD_DETECTION_RADIUS
           => e.after = "returning"
      /\ DistanceSquared(e.gridPos, foodPos)
           = (FOOD_DETECTION_RADIUS + 1) * (FOOD_DETECTION_RADIUS + 1)
           => e.after = "searching"

\* in one frame, one Searching ant at distance FOOD_DETECTION_RADIUS becomes Returning
\* and another at distance FOOD_DETECTION_RADIUS + 1 stays Searching
C4_Witness ==
  /\ \E k \in 1 .. Len(Updates) :
       /\ Updates[k].before = "searching" /\ Updates[k].after = "returning"
       /\ DistanceSquared(Updates[k].gridPos, foodPos)
            = FOOD_DETECTION_RADIUS * FOOD_DETECTION_RADIUS
  /\ \E k \in 1 .. Len(Updates) :
       /\ Updates[k].before = "searching" /\ Updates[k].after = "searching"
       /\ DistanceSquared(Updates[k].gridPos, foodPos)
            = (FOOD_DETECTION_RADIUS + 1) * (FOOD_DETECTION_RADIUS + 1)

\* C5: every cell of both pheromone grids holds a value in [0, PHEROMONE_MAX]
C5_PheromoneRange ==
  /\ \A c \in DOMAIN explorePheromones :
       explorePheromones[c] >= 0 /\ explorePheromones[c] <= PHEROMONE_MAX * PherScale
  /\ \A c \in DOMAIN returnPheromones :
       returnPheromones[c] >= 0 /\ returnPheromones[c] <= PHEROMONE_MAX * PherScale

\* a deposit has been cut at PHEROMONE_MAX, in a cell that has evaporated before
C5_Witness ==
  /\ frame.n >= 2
  /\ \E c \in DOMAIN explorePheromones : explorePheromones[c] = PHEROMONE_MAX * PherScale

\* C6: the history of an ant holds at most ANT_HISTORY_LENGTH entries, and no two
\* adjacent entries are the same cell
C6_History ==
  \A k \in 1 .. Len(ants) :
    /\ Len(ants[k].history) <= ANT_HISTORY_LENGTH
    /\ \A n \in 1 .. Len(ants[k].history) - 1 : ants[k].history[n] # ants[k].history[n + 1]

\* an update has dropped the oldest entry of a full history
C6_Witness ==
  \E k \in 1 .. Len(Updates) :
    /\ Updates[k].shifted
    /\ Len(ants[Updates[k].ant].history) = ANT_HISTORY_LENGTH

\* the ants there were when the loop of updateAndDrawAnts began
AntsInFrame ==
  Len(ants) - Cardinality({k \in LogPositions("spawn") : frame.log[k].spawned})

\* C8 as stated: the ants are updated one at a time, each once, the earliest-spawned
\* first, so that an update sees the deposits of the ants spawned before it
C8_AsStated ==
  /\ \A k \in 1 .. Len(Updates) :
       /\ Updates[k].ant = k
       /\ Updates[k].seen \subseteq 1 .. (Updates[k].ant - 1)
  /\ FrameOver => Len(Updates) = AntsInFrame

\* C8: the ants are updated one at a time, each once, the latest-spawned first, so
\* that an update sees the deposits made in the frame by exactly the ants spawned
\* after it
C8_UpdateOrder ==
  /\ \A k \in 1 .. Len(Updates) :
       /\ Updates[k].ant = AntsInFrame - k + 1
       /\ Updates[k].seen =
            {Updates[j].ant : j \in {n \in 1 .. Len(Updates) :
                                       Updates[n].ant > Updates[k].ant /\ Updates[n].deposited}}
  /\ pc = "updateAndDrawAnts" => Len(Updates) = AntsInFrame - i
  /\ (pc = "spawnNewAnts" \/ FrameOver) => Len(Updates) = AntsInFrame

\* the earliest-spawned ant runs its sensing loop on grids that hold the deposit the
\* ant spawned after it has made in the same frame
C8_Witness ==
  /\ Len(Updates) = 2
  /\ Updates[1].ant = 2 /\ Updates[1].deposited
  /\ Updates[2].ant = 1 /\ Updates[2].sensed /\ Updates[2].seen = {2}

\* the heading an update ends with, the perturbation of lines 531-533 left out
WithoutPerturbation(e) == IF e.rejected THEN e.final ELSE e.turned

\* C9 as stated: over one update the heading changes by at most TURN_ANGLE, the
\* perturbation not counted
C9_AsStated ==
  \A k \in 1 .. Len(Updates) :
    AngularDistance(Updates[k].heading, WithoutPerturbation(Updates[k])) <= TURN_ANGLE

\* C9: the turn Ant.move makes towards the desired heading, the perturbation not
\* counted, is at most TURN_ANGLE; so is the change of heading over an update in
\* which no state transition happens and the move is not rejected
C9_TurnBound ==
  \A k \in 1 .. Len(Updates) :
    LET e == Updates[k] IN
    /\ AngularDistance(e.moveFrom, e.turned) <= TURN_ANGLE
    /\ (e.before = e.after /\ ~e.rejected) =>
         AngularDistance(e.heading, e.turned) <= TURN_ANGLE

\* an accepted move whose desired heading is further away than TURN_ANGLE
C9_Witness ==
  \E k \in 1 .. Len(Updates) :
    LET e == Updates[k] IN
    /\ e.before = e.after /\ ~e.rejected
    /\ AngularDistance(e.heading, e.desired) > TURN_ANGLE
    /\ AngularDistance(e.heading, e.turned) = TURN_ANGLE

(***************************************************************************)
(* Claims about updatePheromones                                           *)
(***************************************************************************)
\* no cell of either grid holds anything
AllZero ==
  /\ \A c \in DOMAIN explorePheromones : explorePheromones[c] = 0
  /\ \A c \in DOMAIN returnPheromones : returnPheromones[c] = 0

\* no cell of either grid grows in the step
NoCellGrows ==
  /\ \A c \in DOMAIN explorePheromones : explorePheromones'[c] <= explorePheromones[c]
  /\ \A c \in DOMAIN returnPheromones : returnPheromones'[c] <= returnPheromones[c]

\* C11 as stated: for every rate in (0, 1] the values of a cell never increase, reach
\* 0 after finitely many calls and stay 0
C11_AsStated ==
  /\ [][NoCellGrows]_vars
  /\ <>[]AllZero

\* 1.0 - evapRate is a number below 1.0
RateTakesEffect == OneMinus(EVAPORATION_RATE) < FactorScale

\* every cell is 0, or 1.0 - evapRate is 1.0
DecayedIfEffective == AllZero \/ ~RateTakesEffect

\* C11: for every rate in (0, 1] the values of a cell never increase; for every rate
\* that is large enough for 1.0 - rate to be a number below 1.0, they reach 0 after
\* finitely many calls and stay 0
C11_Decay ==
  /\ [][NoCellGrows]_vars
  /\ <>[]DecayedIfEffective

\* with the configured rate, cells that began at PHEROMONE_MAX have reached 0
C11_Witness ==
  /\ pc = "none" /\ frame.log # << >> /\ frame.log[1].kind = "start"
  /\ EVAPORATION_RATE = ConfiguredRate
  /\ \A c \in DOMAIN explorePheromones :
       frame.log[1].explore[c] = PHEROMONE_MAX * PherScale /\ explorePheromones[c] = 0
  /\ \A c \in DOMAIN returnPheromones :
       frame.log[1].return[c] = PHEROMONE_MAX * PherScale /\ returnPheromones[c] = 0
(***************************************************************************)
(* Claims about spawnInitialAnts and spawnNewAnts                          *)
(***************************************************************************)
\* the calls of spawnNewAnts in the log of the current frame
SpawnCalls == {k \in 1 .. Len(frame.log) : frame.log[k].kind = "spawn"}

\* an ant as the constructor leaves it when called with the colony's cell
AtColonySearching(a, colony) ==
  /\ a.gridPos = colony
  /\ a.pos = gridToPixel(colony[1], colony[2])
  /\ a.state = "searching"

\* C12 as stated: an ant is admitted exactly when the population is below the cap and
\* the time elapsed since the last admission is the interval or more
C12_AsStated ==
  \A k \in SpawnCalls :
    frame.log[k].spawned <=>
      (frame.log[k].population < NUM_ANTS /\ frame.log[k].elapsed >= SPAWN_INTERVAL)

\* C12: an ant is admitted exactly when the population is below the cap and the time
\* elapsed since the last admission is more than the interval; none is admitted when
\* the time elapsed is the interval
C12_SpawnCondition ==
  \A k \in SpawnCalls :
    /\ frame.log[k].spawned <=>
         (frame.log[k].population < NUM_ANTS /\ frame.log[k].elapsed > SPAWN_INTERVAL)
    /\ frame.log[k].spawned =>
         /\ Len(ants) = frame.log[k].population + 1
         /\ AtColonySearching(ants[Len(ants)], colonyPos)
    /\ ~frame.log[k].spawned => Len(ants) = frame.log[k].population

\* an ant is admitted one millisecond after the interval has elapsed, at the colony
C12_Witness ==
  \E k \in SpawnCalls :
    /\ frame.log[k].spawned
    /\ frame.log[k].elapsed = SPAWN_INTERVAL + 1
    /\ frame.log[k].population < NUM_ANTS
    /\ ants[Len(ants)].gridPos = colonyPos

\* C13: after setup there are at most NUM_ANTS ants; the list never shrinks and no ant
\* in it is replaced by a call of spawnNewAnts; a call adds at most one ant, setup at
\* most NUM_ANTS; every ant is created at colonyPos, Searching
C13_Population ==
  /\ [](pc # "setup" => Len(ants) <= NUM_ANTS)
  /\ [][/\ Len(ants') >= Len(ants)
        /\ pc # "setup" => Len(ants') <= Len(ants) + 1
        /\ \A k \in 1 .. Len(ants') : k > Len(ants) => AtColonySearching(ants'[k], colonyPos')]_vars
  /\ [](\A k \in SpawnCalls : frame.log[k].spawned => frame.log[k].population < NUM_ANTS)

\* the population is at the cap and a call of spawnNewAnts admits nobody although
\* more than the interval has elapsed
C13_Witness ==
  /\ Len(ants) = NUM_ANTS
  /\ \E k \in SpawnCalls :
       /\ ~frame.log[k].spawned
       /\ frame.log[k].population = NUM_ANTS
       /\ frame.log[k].elapsed > SPAWN_INTERVAL
(***************************************************************************)
(* Claims about Ant.update: deposit, move, charge; and what a frame leaves *)
(* alone                                                                   *)
(***************************************************************************)
\* the grid an ant in a state deposits into
GridFor(state) == IF state = "searching" THEN "explore" ELSE "return"

\* C16 as stated: when the charge is positive after the decrement, whatever an update
\* writes it writes into the cell of the position the ant has after that update's
\* move, in the explore grid when Searching and in the return grid when Returning
C16_AsStated ==
  \A k \in LogPositions("update") :
    LET e == frame.log[k]
    IN  /\ e.charge > 0 =>
             e.written \subseteq {<<GridFor(e.after), pixelToGrid(e.posAfter[1], e.posAfter[2])>>}
        /\ ~(e.charge > 0) => e.written = {}

\* what the code does: the cell written is the one computed by updateGridPos at the
\* start of the update, from the position before the move
C16_DepositsAtCellBeforeMove ==
  \A k \in LogPositions("update") :
    LET e == frame.log[k]
    IN  /\ e.charge > 0 =>
             e.written \subseteq {<<GridFor(e.after), pixelToGrid(e.pos[1], e.pos[2])>>}
        /\ ~(e.charge > 0) => e.written = {}

\* an update moves the ant into another cell and deposits
C16_Witness ==
  \E k \in LogPositions("update") :
    LET e == frame.log[k]
    IN  /\ e.charge > 0
        /\ e.written # {}
        /\ pixelToGrid(e.posAfter[1], e.posAfter[2]) # pixelToGrid(e.pos[1], e.pos[2])

\* the tentative position of an update lies outside the grid or in a Wall cell
Blocked(e) ==
  LET nextGrid == pixelToGrid(e.nextPos[1], e.nextPos[2])
  IN  \/ ~isValidGridPos(nextGrid[1], nextGrid[2], GRID_COLS, GRID_ROWS)
      \/ maze[nextGrid] = 1

\* C17: when the tentative position lies outside the grid or in a Wall cell the update
\* leaves the position as it was and draws a new heading; otherwise the position
\* becomes the tentative position and no heading is drawn
C17_MoveRejected ==
  \A k \in LogPositions("update") :
    LET e == frame.log[k]
    IN  /\ Blocked(e) => e.posAfter = e.pos /\ e.rejected /\ e.final \in RandomHeadings
        /\ ~Blocked(e) => e.posAfter = e.nextPos /\ ~e.rejected

\* an update runs into a Wall cell, stays where it is and gets another heading, and
\* some update of the run so far moved its ant
C17_Witness ==
  /\ \E k \in LogPositions("update") :
       LET e == frame.log[k]
       IN  /\ Blocked(e)
           /\ e.posAfter = e.pos
           /\ e.final # e.moveFrom
  /\ \E k \in 1 .. Len(ants) : ants[k].pos # gridToPixel(colonyPos[1], colonyPos[2])

\* the charge of ant k is changed by this step
ChargeChanges(k) == k <= Len(ants') /\ ants'[k].charge # ants[k].charge

\* C18: a charge is an integer from 0 to PHEROMONE_DURATION; an update without a
\* transition lowers it by 1, or leaves it 0; an update with a transition leaves it
\* at PHEROMONE_DURATION - 1; only the update of an ant changes its charge
C18_Charge ==
  /\ [](\A k \in 1 .. Len(ants) : ants[k].charge \in 0 .. PHEROMONE_DURATION)
  /\ [](\A k \in LogPositions("update") :
          LET e == frame.log[k]
          IN  /\ e.before = e.after => e.charge = Max2(0, e.chargeBefore - 1)
              /\ e.before # e.after => e.charge = PHEROMONE_DURATION - 1
              /\ FrameOver => ants[e.ant].charge = e.charge)
  /\ [][\A k \in 1 .. Len(ants) :
          ChargeChanges(k) => pc = "updateAndDrawAnts" /\ i = k]_vars

\* an update finds the charge 0 and leaves it 0
C18_Witness ==
  \E k \in LogPositions("update") :
    LET e == frame.log[k]
    IN  e.chargeBefore = 0 /\ e.charge = 0 /\ e.before = e.after

\* C19: after setup no step changes the maze, colonyPos, foodPos, the dimensions of
\* the grid or the configured rate
C19_MazeFixed ==
  [][pc # "setup" =>
       UNCHANGED <<maze, colonyPos, foodPos, GRID_COLS, GRID_ROWS, EVAPORATION_RATE>>]_vars

\* a frame is over in which an ant deposited and an ant was admitted
C19_Witness ==
  /\ FrameOver
  /\ \E k \in LogPositions("update") : frame.log[k].written # {}
  /\ \E k \in LogPositions("spawn") : frame.log[k].spawned
  /\ \E c \in DOMAIN explorePheromones : explorePheromones[c] > 0
(***************************************************************************)
(* Claims about setup() when no position is found                          *)
(***************************************************************************)
\* findValidPosition returned null for the colony or for the food
NoPosition == colonyPos = Null \/ foodPos = Null

ProbeSet(e) == {<<e.probes[n].offset, e.probes[n].dist>> : n \in 1 .. Len(e.probes)}

\* the five offsets from -SENSE_ANGLE / 2 to SENSE_ANGLE / 2 in steps of SENSE_ANGLE / 4
ConeOffsets == {k * (SENSE_ANGLE \div 4) : k \in -2 .. 2}

\* m halves of SENSE_RADIUS cell lengths, in units of 1 / PosScale pixel
HalfRadii(m) == (m * SENSE_RADIUS_MILLI * CELL_SIZE * PosScale) \div 2000

\* C22 as stated: an update in which the goal is not sensed probes exactly 10 points:
\* the five offsets, each at 0.5 and at 1.0 times SENSE_RADIUS cell lengths
C22_AsStated ==
  \A k \in LogPositions("update") :
    LET e == frame.log[k]
    IN  e.sensed =>
          /\ Len(e.probes) = 10
          /\ ProbeSet(e) = ConeOffsets \X {HalfRadii(1), HalfRadii(2)}

\* what the code does: 15 probes, the five offsets each at three distances, which are
\* the lengths senseVec has after one, two and three calls of mult
C22_ProbesOfTheCode ==
  \A k \in LogPositions("update") :
    LET e == frame.log[k]
    IN  /\ e.sensed =>
             /\ Len(e.probes) = 15
             /\ ProbeSet(e) = ConeOffsets \X {senseVecLength(m) : m \in 1 .. 3}
        /\ ~e.sensed => e.probes = << >>

\* an update senses with the goal out of reach: it probes a third distance, and its
\* second distance is not SENSE_RADIUS cell lengths
C22_Witness ==
  \E k \in LogPositions("update") :
    LET e == frame.log[k]
    IN  /\ e.sensed
        /\ Len(e.probes) > 10
        /\ e.probes[1].dist = HalfRadii(1)
        /\ e.probes[2].dist # HalfRadii(2)
(***************************************************************************)
(* Claims about where the ants are                                         *)
(***************************************************************************)
\* the position lies in a cell of the grid that is Path
InPathCell(pos) ==
  LET cell == pixelToGrid(pos[1], pos[2])
  IN  /\ isValidGridPos(cell[1], cell[2], GRID_COLS, GRID_ROWS)
      /\ maze[cell] = 0

\* C23: after setup the position of every ant lies in a cell of the grid that is
\* Path, and the constrain at the end of Ant.move changes no position
C23_InPathCell ==
  /\ pc # "setup" => \A k \in 1 .. Len(ants) : InPathCell(ants[k].pos)
  /\ \A k \in LogPositions("update") :
       /\ ~frame.log[k].clamped
       /\ InPathCell(frame.log[k].posAfter)

\* a frame is over in which an ant ran into a Wall cell, and an ant stands in a Path
\* cell other than the colony's
C23_Witness ==
  /\ FrameOver
  /\ \E k \in LogPositions("update") : frame.log[k].rejected /\ ~frame.log[k].clamped
  /\ \E k \in 1 .. Len(ants) :
       /\ pixelToGrid(ants[k].pos[1], ants[k].pos[2]) # colonyPos
       /\ InPathCell(ants[k].pos)
(***************************************************************************)
(* Claims about the transitions of an ant                                  *)
(***************************************************************************)
\* the ants that carry food
Returning == {k \in 1 .. Len(ants) : ants[k].state = "returning"}

\* C24: an update makes at most one transition, and makes one exactly when it changes
\* the state; a step that takes an ant from Searching adds 1 to the transitions from
\* Searching to Returning and nothing to foodFoundCount, a step that takes it from
\* Returning adds 1 to foodFoundCount only; so the transitions from Searching to
\* Returning are as many as foodFoundCount and the ants that are Returning together,
\* and foodFoundCount is never more than they are
C24_Transitions ==
  /\ [](\A k \in LogPositions("update") :
          /\ frame.log[k].transitions <= 1
          /\ frame.log[k].transitions = 1 <=> frame.log[k].before # frame.log[k].after)
  /\ [][\A k \in 1 .. Len(ants) :
          ants'[k].state # ants[k].state =>
            IF ants[k].state = "searching"
            THEN frame'.pickups = frame.pickups + 1 /\ foodFoundCount' = foodFoundCount
            ELSE frame'.pickups = frame.pickups /\ foodFoundCount' = foodFoundCount + 1]_vars
  /\ [](pc # "setup" => frame.pickups = foodFoundCount + Cardinality(Returning))
  /\ [](foodFoundCount <= frame.pickups)

\* colony and food are in the same cell, and an ant there has become Returning,
\* Searching and Returning again in three updates
C24_Witness ==
  /\ colonyPos = foodPos
  /\ colonyPos # Null
  /\ foodFoundCount = 1
  /\ frame.pickups = 2
  /\ Returning # {}
=============================================================================
